---- MODULE Spec2Model ----
(***************************************************************************)
(* Session lifecycle engine of ultimate-focus-timer                       *)
(* (src/src/session_manager.py, class SessionManager).                    *)
(*                                                                         *)
(* Process 0 is the caller (GUI / console thread); processes 1..MaxThreads *)
(* are the timer threads created by start_session, and one more is held in *)
(* reserve for the runs that begin with a thread in its auto-start delay.  *)
(* A step is a group of                                                    *)
(* consecutive statements of one thread.  The timer thread is cut between  *)
(* its loop test (lines 189-193) and the tick it decided on (line 194),    *)
(* and between the stages of _complete_session; stop_session is cut at its *)
(* bounded join, start_session at the start of the new thread.  The caller *)
(* and the timer threads interleave at these points.                       *)
(*                                                                         *)
(* Minute quantities are rationals in the source (callers pass 10/60,      *)
(* 0.05, 25).  The model stores a minute quantity m as the integer 60*m,   *)
(* its number of sixtieths of a minute.                                    *)
(***************************************************************************)
EXTENDS Integers, Sequences, FiniteSets, TLC

\* ---------------------------------------------------------------- bounds
MaxThreads == 2      \* timer threads that may be created in one run
MaxCalls == 3        \* calls of the four operations made in one run
MaxDur == 2          \* longest caller-supplied duration, in sixtieths of a minute
MaxInterval == 2     \* largest configured long_break_interval
MaxLines == 3        \* lines of a log file given to the analyzer
MaxMinutes == 2      \* longest duration, in minutes, of a Completed line

\* ------------------------------------------------------- program constants
SecondsPerMinute == 60

WORK == "work"
SHORT_BREAK == "short_break"
LONG_BREAK == "long_break"
CUSTOM == "custom"
SessionType == {WORK, SHORT_BREAK, LONG_BREAK, CUSTOM}

READY == "ready"
RUNNING == "running"
PAUSED == "paused"
COMPLETED == "completed"
STOPPED == "stopped"
SessionState == {READY, RUNNING, PAUSED, COMPLETED, STOPPED}

None == "None"      \* None where a string is expected
NoTime == -1         \* None where a datetime is expected
NoMinutes == -1      \* duration_minutes is None
NoThread == 0        \* timer_thread is None
NoCall == [op |-> "none", ok |-> FALSE]

\* What can be broken around the engine for the length of a run: the log
\* file cannot be written (the open or write of lines 336-337 raises), mpv
\* cannot be started (music_controller.py lines 141-143, 202-204), no
\* desktop notification can be shown (notification_manager.py lines
\* 116-119), the callbacks set by set_callbacks raise.
NoFault == "none"
WriteFault == "write"
MusicFault == "music"
NotifyFault == "notify"
CallbackFault == "callback"
Faults == {WriteFault, MusicFault, NotifyFault, CallbackFault}

Caller == 0
\* the thread a fresh engine never creates: DeferredSpec, whose runs begin
\* with one thread already used, has it beside the MaxThreads others
Reserve == MaxThreads + 1
Workers == 1..Reserve
Procs == {Caller} \cup Workers

VARIABLES
    config,                   \* the configuration collaborator's values
    fault,                    \* what is broken in the environment of this run
    is_playing,               \* MusicController.is_playing
    session_type, session_duration, elapsed_seconds, state,
    start_time, pause_time,
    stop_event,               \* threading.Event: TRUE when set
    timer_thread,             \* id of the thread last started, or None
    completed_work_sessions, session_count,
    log,                      \* lines appended to log/focus.log
    pc,                       \* position of every process
    arg_type, duration_minutes,   \* start_session arguments / locals per process
    next_type,                \* _suggest_next_session: last candidate computed
    early_warning_sent,       \* _timer_loop local, per thread
    tick_args,                \* arguments of the last on_tick_callback call
    complete_args,            \* arguments of the last on_complete_callback call
    ret,                      \* operation and result of the caller's last call
    calls,                    \* calls of operations made so far
    completed_starts,         \* history: start_time of every session whose
                              \* completion has reached its log write
    warning_requested,        \* history: an early warning has been requested
                              \* since the last start of a session
    now,                      \* datetime.now(), a logical clock
    file,                     \* the lines of the file SessionAnalyzer reads
    line_no,                  \* load_session_data: the line the loop is at
    sessions,                 \* SessionAnalyzer.sessions
    stats,                    \* result of calculate_stats
    view, period,             \* result and argument of filter_sessions
    daily,                    \* result of get_daily_breakdown
    quick,                    \* result of get_quick_stats
    session_statistics,       \* result of get_session_statistics
    ana_pc                    \* position of the analyzer

sessVars == <<session_type, session_duration, elapsed_seconds, state,
              start_time, pause_time>>
countVars == <<completed_work_sessions, session_count>>
threadVars == <<stop_event, timer_thread>>
localVars == <<arg_type, duration_minutes, early_warning_sent>>
obsVars == <<tick_args, complete_args, next_type>>
resultVars == <<view, period, daily, quick, session_statistics>>
anaVars == <<file, line_no, sessions, stats, resultVars, ana_pc>>
\* what no operation of the engine writes: the configuration, the fault of
\* the run, and the analyzer with the file it was given
envVars == <<config, fault, anaVars>>
histVars == <<completed_starts, warning_requested>>
vars == <<envVars, sessVars, countVars, threadVars, is_playing, log, pc,
          localVars, obsVars, ret, now, calls, histVars>>

\* ------------------------------------------------------------ arithmetic
\* duration_minutes * 60, for a minute quantity m held in sixtieths
MinutesToSeconds(m) == (m * SecondsPerMinute) \div 60

\* session_duration // 60, as a minute quantity in sixtieths
WholeMinutes(secs) == (secs \div SecondsPerMinute) * 60

\* round(elapsed_seconds / 60, 1), as a minute quantity in sixtieths.
\* Tenths of a minute are multiples of 6 seconds; the exact ties (3 mod 6)
\* go the way the binary doubles do: 3/60 rounds up, 9/60 rounds down.
TieUp == {3, 27, 33, 39, 45, 63, 81, 93, 105, 111}
RoundTenth(secs) ==
    LET q == secs \div 6
        r == secs % 6
    IN  IF r < 3 THEN 6 * q
        ELSE IF r > 3 THEN 6 * (q + 1)
        ELSE IF secs \in TieUp THEN 6 * (q + 1) ELSE 6 * q

LogLine(event, type, mins) == [event |-> event, type |-> type, mins |-> mins]

\* ------------------------------------------------------------ configuration
Configs ==
    [work_mins : {MaxDur}, short_break_mins : {1}, long_break_mins : {2},
     long_break_interval : {1, MaxInterval},
     notify_early_warning : {120},
     auto_start_break : BOOLEAN, auto_start_work : {FALSE}]

\* the (session_type, duration_minutes) pairs callers pass to start_session
StartArgs ==
    {<<WORK, NoMinutes>>, <<SHORT_BREAK, 1>>}

\* ------------------------------------------------------------------ Init
NoStats == [work_sessions |-> 0, total_work_time |-> 0]

\* no SessionAnalyzer has been constructed
\* nothing has been asked of the analyzer
NoResults ==
    /\ view = <<>>
    /\ period = None
    /\ daily = <<>>
    /\ quick = NoStats
    /\ session_statistics = NoStats

NoAnalyzer ==
    /\ file = <<>>
    /\ line_no = 0
    /\ sessions = <<>>
    /\ stats = NoStats
    /\ NoResults
    /\ ana_pc = "idle"

\* lines 46-69: the fields of a new SessionManager
Fresh ==
    /\ session_type = WORK
    /\ session_duration = 0
    /\ elapsed_seconds = 0
    /\ state = READY
    /\ start_time = NoTime
    /\ pause_time = NoTime
    /\ stop_event = FALSE
    /\ timer_thread = NoThread
    /\ completed_work_sessions = 0
    /\ session_count = 0
    /\ log = <<>>
    /\ pc = [p \in Procs |-> IF p = Caller THEN "idle"
                            ELSE IF p = Reserve THEN "reserve"
                            ELSE "unborn"]
    /\ arg_type = [p \in Procs |-> WORK]
    /\ duration_minutes = [p \in Procs |-> 0]
    /\ next_type = None
    /\ early_warning_sent = [w \in Workers |-> FALSE]
    /\ tick_args = <<>>
    /\ complete_args = <<>>
    /\ is_playing = FALSE
    /\ warning_requested = FALSE
    /\ ret = NoCall
    /\ now = 0
    /\ calls = 0
    /\ completed_starts = {}

Init ==
    /\ config \in Configs
    /\ fault = NoFault
    /\ Fresh
    /\ NoAnalyzer

\* configurations of the auto-chain: one of the two flags on, the other off
AutoConfigs ==
    {c \in [work_mins : {1}, short_break_mins : {1},
            long_break_mins : {2}, long_break_interval : {MaxInterval},
            notify_early_warning : {120},
            auto_start_break : BOOLEAN, auto_start_work : BOOLEAN] :
        c.auto_start_break # c.auto_start_work}

AutoInit ==
    /\ config \in AutoConfigs
    /\ fault = NoFault
    /\ Fresh
    /\ NoAnalyzer

\* ------------------------------------------------------------- helpers
Goto(p, l) == pc' = [pc EXCEPT ![p] = l]

Unborn == {w \in Workers : pc[w] = "unborn"}
NewThread == CHOOSE w \in Unborn : \A v \in Unborn : w <= v

\* the frame of a call of process p is dropped when the call returns
ClearLocals(p) ==
    /\ arg_type' = [arg_type EXCEPT ![p] = WORK]
    /\ duration_minutes' = [duration_minutes EXCEPT ![p] = 0]

\* value returned to process p by a finished call; timer threads drop it
Return(p, op, ok) ==
    IF p = Caller
    THEN /\ Goto(p, "idle")
         /\ ret' = [op |-> op, ok |-> ok]
    ELSE /\ Goto(p, "done")
         /\ UNCHANGED ret

\* one more call of an operation is made
Call ==
    /\ calls < MaxCalls
    /\ calls' = calls + 1

\* ------------------------------------------------------- start_session
\* lines 93-101: the per-type default when no duration was passed
DefaultMinutes(t) ==
    CASE t = WORK -> config.work_mins
      [] t = SHORT_BREAK -> config.short_break_mins
      [] t = LONG_BREAK -> config.long_break_mins
      [] t = CUSTOM -> 25 * 60

\* music_controller.py lines 137-204, start_music: is_playing after the call
StartMusic == fault # MusicFault

\* _log_session_event opening the file with mode "w" instead of "a"
Write_Truncating(line) ==
    log' = IF fault = WriteFault THEN log ELSE <<line>>

\* lines 330-339, _log_session_event: the line is appended unless the write
\* raises, and then the exception is caught and nothing is written
Write(line) ==
    log' = IF fault = WriteFault THEN log ELSE Append(log, line)

\* StartBody with the failure of start_music leaving start_session at line
\* 111, before the timer thread is created
StartBody_MusicRaises(p, t, m) ==
    LET mins == IF m = NoMinutes THEN DefaultMinutes(t) ELSE m
        aborted == t = WORK /\ ~StartMusic
    IN  /\ Unborn # {}
        /\ session_type' = t
        /\ session_duration' = MinutesToSeconds(mins)
        /\ elapsed_seconds' = 0
        /\ now' = now + 1
        /\ start_time' = now'
        /\ pause_time' = NoTime
        /\ state' = RUNNING
        /\ is_playing' = IF t = WORK THEN StartMusic ELSE is_playing
        /\ stop_event' = IF aborted THEN stop_event ELSE FALSE
        /\ timer_thread' = IF aborted THEN timer_thread ELSE NewThread
        /\ pc' = IF aborted THEN [pc EXCEPT ![p] = "st_log"]
                 ELSE [pc EXCEPT ![p] = "st_log", ![NewThread] = "loop"]
        /\ early_warning_sent' =
               [early_warning_sent EXCEPT ![NewThread] = FALSE]
        /\ arg_type' = [arg_type EXCEPT ![p] = t]
        /\ duration_minutes' = [duration_minutes EXCEPT ![p] = mins]
        /\ warning_requested' = FALSE

\* lines 91-123, run by process p with arguments (t, m): store the session
\* parameters, reset the clock fields, _set_state(RUNNING), start music,
\* announce the start, clear stop_event and start a new timer thread (whose
\* lines 186-187 run as it starts)
StartBody(p, t, m) ==
    LET mins == IF m = NoMinutes THEN DefaultMinutes(t) ELSE m
    IN  /\ Unborn # {}
        /\ session_type' = t
        /\ session_duration' = MinutesToSeconds(mins)
        /\ elapsed_seconds' = 0
        /\ now' = now + 1
        /\ start_time' = now'
        /\ pause_time' = NoTime
        /\ state' = RUNNING
        /\ is_playing' = IF t = WORK THEN StartMusic ELSE is_playing
        /\ stop_event' = FALSE
        /\ timer_thread' = NewThread
        /\ pc' = [pc EXCEPT ![p] = "st_log", ![NewThread] = "loop"]
        /\ early_warning_sent' =
               [early_warning_sent EXCEPT ![NewThread] = FALSE]
        /\ arg_type' = [arg_type EXCEPT ![p] = t]
        /\ duration_minutes' = [duration_minutes EXCEPT ![p] = mins]
        /\ warning_requested' = FALSE

\* StartCall with the guard of line 86 testing for PAUSED instead of RUNNING
StartCall_WrongGuard(t, m) ==
    /\ pc[Caller] = "idle"
    /\ Call
    /\ IF state = PAUSED
       THEN /\ ret' = [op |-> "start", ok |-> FALSE]
            /\ UNCHANGED <<sessVars, threadVars, is_playing, pc, localVars,
                           now, warning_requested>>
       ELSE /\ StartBody(Caller, t, m)
            /\ ret' = NoCall
    /\ UNCHANGED <<envVars, countVars, log, obsVars, completed_starts>>

\* lines 86-123: the caller's start_session up to the start of the thread
StartCall(t, m) ==
    /\ pc[Caller] = "idle"
    /\ Call
    /\ IF state = RUNNING
       THEN /\ ret' = [op |-> "start", ok |-> FALSE]
            /\ UNCHANGED <<sessVars, threadVars, is_playing, pc, localVars,
                           now, warning_requested>>
       ELSE /\ StartBody(Caller, t, m)
            /\ ret' = NoCall
    /\ UNCHANGED <<envVars, countVars, log, obsVars, completed_starts>>

\* StLog with the exception of the failed write leaving start_session
StLog_WriteRaises(p) ==
    /\ pc[p] = "st_log"
    /\ Write(LogLine("Started", session_type, duration_minutes[p]))
    /\ Return(p, "start", fault # WriteFault)
    /\ ClearLocals(p)
    /\ UNCHANGED <<envVars, is_playing, sessVars, countVars, threadVars,
                   early_warning_sent, obsVars, now, calls, histVars>>

\* lines 126-129
StLog(p) ==
    /\ pc[p] = "st_log"
    /\ Write(LogLine("Started", session_type, duration_minutes[p]))
    /\ Return(p, "start", TRUE)
    /\ ClearLocals(p)
    /\ UNCHANGED <<envVars, is_playing, sessVars, countVars, threadVars,
                   early_warning_sent, obsVars, now, calls, histVars>>

\* ------------------------------------------------------- pause_session
\* PauseCall without the early return of line 134
PauseCall_NoGuard ==
    /\ pc[Caller] = "idle"
    /\ Call
    /\ pause_time' = now
    /\ state' = PAUSED
    /\ is_playing' = IF session_type = WORK THEN FALSE ELSE is_playing
    /\ ret' = [op |-> "pause", ok |-> TRUE]
    /\ UNCHANGED <<envVars, session_type, session_duration, elapsed_seconds,
                   start_time, countVars, threadVars, log, pc, localVars,
                   obsVars, now, histVars>>

\* lines 131-144
PauseCall ==
    /\ pc[Caller] = "idle"
    /\ Call
    /\ IF state # RUNNING
       THEN /\ ret' = [op |-> "pause", ok |-> FALSE]
            /\ UNCHANGED <<pause_time, state, is_playing>>
       ELSE /\ pause_time' = now
            /\ state' = PAUSED
            /\ is_playing' = IF session_type = WORK THEN FALSE
                              ELSE is_playing
            /\ ret' = [op |-> "pause", ok |-> TRUE]
    /\ UNCHANGED <<envVars, session_type, session_duration, elapsed_seconds,
                   start_time, countVars, threadVars, log, pc, localVars,
                   obsVars, now, histVars>>

\* ------------------------------------------------------ resume_session
\* lines 146-159
ResumeCall ==
    /\ pc[Caller] = "idle"
    /\ Call
    /\ IF state # PAUSED
       THEN /\ ret' = [op |-> "resume", ok |-> FALSE]
            /\ UNCHANGED <<pause_time, state, is_playing>>
       ELSE /\ pause_time' = NoTime
            /\ state' = RUNNING
            /\ is_playing' = IF session_type = WORK
                              THEN is_playing \/ StartMusic
                              ELSE is_playing
            /\ ret' = [op |-> "resume", ok |-> TRUE]
    /\ UNCHANGED <<envVars, session_type, session_duration, elapsed_seconds,
                   start_time, countVars, threadVars, log, pc, localVars,
                   obsVars, now, histVars>>

\* -------------------------------------------------------- stop_session
\* StopCall also letting a completed session be stopped
StopCall_WrongGuard ==
    /\ pc[Caller] = "idle"
    /\ Call
    /\ IF state \notin {RUNNING, PAUSED, COMPLETED}
       THEN /\ ret' = [op |-> "stop", ok |-> FALSE]
            /\ UNCHANGED <<stop_event, pc>>
       ELSE /\ stop_event' = TRUE
            /\ Goto(Caller, "stop_join")
            /\ ret' = NoCall
    /\ UNCHANGED <<envVars, is_playing, sessVars, countVars, timer_thread, log, localVars,
                   obsVars, now, histVars>>

\* lines 163-167: the guard, then stop_event.set()
StopCall ==
    /\ pc[Caller] = "idle"
    /\ Call
    /\ IF state \notin {RUNNING, PAUSED}
       THEN /\ ret' = [op |-> "stop", ok |-> FALSE]
            /\ UNCHANGED <<stop_event, pc>>
       ELSE /\ stop_event' = TRUE
            /\ Goto(Caller, "stop_join")
            /\ ret' = NoCall
    /\ UNCHANGED <<envVars, is_playing, sessVars, countVars, timer_thread, log, localVars,
                   obsVars, now, histVars>>

\* lines 168-182: join(timeout=1) returns when the thread has exited or when
\* the second is over, whichever is first; then stop music,
\* _set_state(STOPPED) and the Stopped line
StopJoin ==
    /\ pc[Caller] = "stop_join"
    /\ is_playing' = FALSE
    /\ state' = STOPPED
    /\ Write(LogLine("Stopped", session_type, RoundTenth(elapsed_seconds)))
    /\ Return(Caller, "stop", TRUE)
    /\ UNCHANGED <<envVars, session_type, session_duration, elapsed_seconds,
                   start_time, pause_time, countVars, threadVars, localVars,
                   obsVars, now, calls, histVars>>

\* ---------------------------------------------------------- _timer_loop
\* lines 189-193, 219 and 222-226: one evaluation of the loop condition.
\* When it holds, the thread either goes on to line 194 (state is RUNNING) or
\* sleeps a second and evaluates it again; when it fails, the thread leaves
\* the loop, its local early_warning_sent is not read again, and it decides
\* whether the session completed.
Loop(w) ==
    /\ pc[w] = "loop"
    /\ IF ~stop_event /\ elapsed_seconds < session_duration
       THEN /\ IF state = RUNNING THEN Goto(w, "tick") ELSE UNCHANGED pc
            /\ UNCHANGED early_warning_sent
       ELSE /\ IF ~stop_event /\ elapsed_seconds >= session_duration
               THEN Goto(w, "c_state")
               ELSE Goto(w, "done")
            /\ early_warning_sent' = [early_warning_sent EXCEPT ![w] = FALSE]
    /\ UNCHANGED <<envVars, is_playing, sessVars, countVars, threadVars, log, arg_type,
                   duration_minutes, obsVars, ret, now, calls, histVars>>

\* line 187: notify_early_warning * 60
EarlyWarningTime == MinutesToSeconds(config.notify_early_warning)

\* Tick with the exception of the tick callback ending the thread
Tick_CallbackRaises(w) ==
    /\ pc[w] = "tick"
    /\ elapsed_seconds' = elapsed_seconds + 1
    /\ LET remaining_seconds == session_duration - elapsed_seconds'
       IN  early_warning_sent' =
             [early_warning_sent EXCEPT ![w] =
                \/ early_warning_sent[w]
                \/ /\ remaining_seconds <= EarlyWarningTime
                   /\ remaining_seconds > 0]
    /\ warning_requested' =
           (warning_requested
              \/ (early_warning_sent'[w] /\ ~early_warning_sent[w]))
    /\ tick_args' = <<elapsed_seconds', session_duration>>
    /\ Goto(w, IF fault = CallbackFault THEN "done" ELSE "loop")
    /\ UNCHANGED <<envVars, is_playing, session_type, session_duration, state, start_time,
                   pause_time, countVars, threadVars, log, arg_type,
                   duration_minutes, next_type, complete_args, ret, now,
                   calls, completed_starts>>

\* lines 194-219: one tick.  The increment, the early warning, the tick
\* callback, time.sleep(1).
Tick(w) ==
    /\ pc[w] = "tick"
    /\ elapsed_seconds' = elapsed_seconds + 1
    /\ LET remaining_seconds == session_duration - elapsed_seconds'
       IN  early_warning_sent' =
             [early_warning_sent EXCEPT ![w] =
                \/ early_warning_sent[w]
                \/ /\ remaining_seconds <= EarlyWarningTime
                   /\ remaining_seconds > 0]
    /\ warning_requested' =
           (warning_requested
              \/ (early_warning_sent'[w] /\ ~early_warning_sent[w]))
    /\ tick_args' = <<elapsed_seconds', session_duration>>
    /\ Goto(w, "loop")
    /\ UNCHANGED <<envVars, is_playing, session_type, session_duration, state, start_time,
                   pause_time, countVars, threadVars, log, arg_type,
                   duration_minutes, next_type, complete_args, ret, now,
                   calls, completed_starts>>

\* ----------------------------------------------------- _complete_session
\* lines 230-236: _set_state(COMPLETED), stop music
CState(w) ==
    /\ pc[w] = "c_state"
    /\ state' = COMPLETED
    /\ is_playing' = IF session_type = WORK THEN FALSE ELSE is_playing
    /\ Goto(w, "c_count")
    /\ UNCHANGED <<envVars, session_type, session_duration, elapsed_seconds,
                   start_time, pause_time, countVars, threadVars, log,
                   localVars, obsVars, ret, now, calls, histVars>>

\* lines 239-241
CCount(w) ==
    /\ pc[w] = "c_count"
    /\ session_count' = session_count + 1
    /\ completed_work_sessions' =
           IF session_type = WORK THEN completed_work_sessions + 1
           ELSE completed_work_sessions
    /\ Goto(w, "c_log")
    /\ UNCHANGED <<envVars, is_playing, sessVars, threadVars, log, localVars, obsVars, ret,
                   now, calls, histVars>>

\* CLog with the completion callback called before the line is written
CLog_CallbackFirst(w) ==
    /\ pc[w] = "c_log"
    /\ duration_minutes' =
           [duration_minutes EXCEPT ![w] = WholeMinutes(session_duration)]
    /\ Write(LogLine("Completed", session_type, duration_minutes'[w]))
    /\ completed_starts' = completed_starts \cup {start_time}
    /\ complete_args' = <<session_type, duration_minutes'[w]>>
    /\ Goto(w, "c_suggest")
    /\ UNCHANGED <<envVars, is_playing, sessVars, countVars, threadVars, arg_type,
                   early_warning_sent, tick_args, next_type, ret, now, calls,
                   warning_requested>>

\* lines 244-250
CLog(w) ==
    /\ pc[w] = "c_log"
    /\ duration_minutes' =
           [duration_minutes EXCEPT ![w] = WholeMinutes(session_duration)]
    /\ Write(LogLine("Completed", session_type, duration_minutes'[w]))
    /\ completed_starts' = completed_starts \cup {start_time}
    /\ Goto(w, "c_suggest")
    /\ UNCHANGED <<envVars, is_playing, sessVars, countVars, threadVars, arg_type,
                   early_warning_sent, obsVars, ret, now, calls,
                   warning_requested>>

\* ------------------------------------------------- _suggest_next_session
\* BreakAfterWork deciding on the count of all completed sessions
BreakAfterWork_AllSessions ==
    IF session_count % config.long_break_interval = 0
    THEN LONG_BREAK ELSE SHORT_BREAK

\* lines 269-278 and 290-297: the break that follows a work session
BreakAfterWork ==
    IF completed_work_sessions % config.long_break_interval = 0
    THEN LONG_BREAK ELSE SHORT_BREAK

\* lines 253-257 (completion callback) and 266-317
CSuggest(w) ==
    /\ pc[w] = "c_suggest"
    /\ complete_args' = <<session_type, duration_minutes[w]>>
    /\ IF session_type = WORK
       THEN /\ next_type' = BreakAfterWork
            /\ IF config.auto_start_break
               THEN /\ arg_type' = [arg_type EXCEPT ![w] = BreakAfterWork]
                    /\ duration_minutes' =
                         [duration_minutes EXCEPT ![w] =
                            IF BreakAfterWork = LONG_BREAK
                            THEN config.long_break_mins
                            ELSE config.short_break_mins]
                    /\ Goto(w, "delay")
               ELSE /\ Goto(w, "done")
                    /\ ClearLocals(w)
       ELSE /\ next_type' = WORK
            /\ IF config.auto_start_work
               THEN /\ arg_type' = [arg_type EXCEPT ![w] = WORK]
                    /\ duration_minutes' =
                         [duration_minutes EXCEPT ![w] = config.work_mins]
                    /\ Goto(w, "delay")
               ELSE /\ Goto(w, "done")
                    /\ ClearLocals(w)
    /\ UNCHANGED <<envVars, is_playing, sessVars, countVars, threadVars, log,
                   early_warning_sent, tick_args, ret, now, calls, histVars>>

\* Delay giving up the automatic start after the sleep
Delay_NoStart(w) ==
    /\ pc[w] = "delay"
    /\ Call
    /\ Goto(w, "done")
    /\ ClearLocals(w)
    /\ UNCHANGED <<envVars, is_playing, sessVars, countVars, threadVars, log,
                   early_warning_sent, obsVars, ret, now, histVars>>

\* lines 283-287 and 310-314: time.sleep(delay), then start_session, lines
\* 86-123, run by the timer thread itself
Delay(w) ==
    /\ pc[w] = "delay"
    /\ Call
    /\ IF state = RUNNING
       THEN /\ Goto(w, "done")
            /\ ClearLocals(w)
            /\ UNCHANGED <<sessVars, threadVars, is_playing,
                           early_warning_sent, now, warning_requested>>
       ELSE /\ StartBody(w, arg_type[w], duration_minutes[w])
    /\ UNCHANGED <<envVars, countVars, log, obsVars, ret, completed_starts>>

\* ------------------------------------------------------------------ Next
CallerStep ==
    \/ \E a \in StartArgs : StartCall(a[1], a[2])
    \/ PauseCall
    \/ ResumeCall
    \/ StopCall \/ StopJoin

WorkerStep(w) ==
    \/ Loop(w) \/ Tick(w)
    \/ CState(w) \/ CCount(w) \/ CLog(w) \/ CSuggest(w) \/ Delay(w)

Next ==
    \/ CallerStep
    \/ \E p \in Procs : StLog(p)
    \/ \E w \in Workers : WorkerStep(w)

Spec == Init /\ [][Next]_vars

\* start_session takes any number for duration_minutes (lines 82-106), and
\* validate_config accepts a configured duration of 0
\* (config_manager.py lines 195-200): the calls of Next and a call with 0
\* minutes
DurationNext == Next \/ StartCall(SHORT_BREAK, 0)

DurationSpec == Init /\ [][DurationNext]_vars

\* lines 478-481, cleanup, up to the join of the stop_session it calls
CleanupCall ==
    /\ pc[Caller] = "idle"
    /\ Call
    /\ IF state \notin {RUNNING, PAUSED}
       THEN /\ ret' = [op |-> "cleanup", ok |-> TRUE]
            /\ UNCHANGED <<stop_event, pc>>
       ELSE /\ stop_event' = TRUE
            /\ Goto(Caller, "cleanup_join")
            /\ ret' = NoCall
    /\ UNCHANGED <<envVars, is_playing, sessVars, countVars, timer_thread,
                   log, localVars, obsVars, now, histVars>>

\* lines 168-182 of the stop_session called by cleanup, and its return
CleanupJoin ==
    /\ pc[Caller] = "cleanup_join"
    /\ is_playing' = FALSE
    /\ state' = STOPPED
    /\ Write(LogLine("Stopped", session_type, RoundTenth(elapsed_seconds)))
    /\ Return(Caller, "cleanup", TRUE)
    /\ UNCHANGED <<envVars, session_type, session_duration, elapsed_seconds,
                   start_time, pause_time, countVars, threadVars, localVars,
                   obsVars, now, calls, histVars>>

\* the engine with its cleanup among the caller's operations (focus_gui.py
\* lines 1881-1887 call it when the window is closed)
CleanupNext == Next \/ CleanupCall \/ CleanupJoin

CleanupSpec == AutoInit /\ [][CleanupNext]_vars

\* ------------------------------------------------------------ log_session
\* type_mapping of log_session: the caller's string to the session type,
\* the generic "break" to a short break, any unknown string to work
TypeMapping(name) ==
    CASE name = "work" -> WORK
      [] name = "short_break" -> SHORT_BREAK
      [] name = "long_break" -> LONG_BREAK
      [] name = "break" -> SHORT_BREAK
      [] name = "custom" -> CUSTOM
      [] OTHER -> WORK

\* status.title() for the statuses the callers pass
Title(status) ==
    CASE status = "completed" -> "Completed"
      [] status = "interrupted" -> "Interrupted"

\* the (session_type, status) pairs the command line front ends pass to
\* log_session after their own countdown
LogArgs ==
    {<<"work", "completed">>, <<"break", "completed">>, <<"work", "interrupted">>}

\* a log_session that writes the record and leaves the counters alone
LogSession_NoCount(name, m, status) ==
    /\ pc[Caller] = "idle"
    /\ Call
    /\ session_type' = TypeMapping(name)
    /\ Write(LogLine(Title(status), session_type', m))
    /\ UNCHANGED countVars
    /\ ret' = [op |-> "log_session", ok |-> TRUE]
    /\ UNCHANGED <<envVars, is_playing, session_duration, elapsed_seconds, state,
                   start_time, pause_time, threadVars, pc, localVars, obsVars,
                   now, histVars>>

\* log_session(session_type, duration, status): the type is set, the record
\* written, and a completed session counted
LogSession(name, m, status) ==
    /\ pc[Caller] = "idle"
    /\ Call
    /\ session_type' = TypeMapping(name)
    /\ Write(LogLine(Title(status), session_type', m))
    /\ IF status = "completed"
       THEN /\ session_count' = session_count + 1
            /\ completed_work_sessions' =
                   IF session_type' = WORK THEN completed_work_sessions + 1
                   ELSE completed_work_sessions
       ELSE UNCHANGED countVars
    /\ ret' = [op |-> "log_session", ok |-> TRUE]
    /\ UNCHANGED <<envVars, is_playing, session_duration, elapsed_seconds, state,
                   start_time, pause_time, threadVars, pc, localVars, obsVars,
                   now, histVars>>

\* the engine with log_session among the caller's operations
CountNext ==
    \/ Next
    \/ \E a \in LogArgs : LogSession(a[1], config.work_mins, a[2])

CountSpec == AutoInit /\ [][CountNext]_vars

\* A timer thread is a running Python thread: it is scheduled again and
\* again, and its time.sleep calls (lines 219, 284, 311) return.  The caller
\* is under no obligation to call anything.
FairSpec ==
    /\ AutoInit
    /\ [][Next]_vars
    /\ \A w \in Workers : WF_vars(WorkerStep(w) \/ StLog(w))

\* Runs in a broken environment: the configuration that lets every step of
\* the engine happen, and any one of the faults or none.
FaultConfigs ==
    [work_mins : {MaxDur}, short_break_mins : {1}, long_break_mins : {2},
     long_break_interval : {MaxInterval},
     notify_early_warning : {120},
     auto_start_break : {TRUE}, auto_start_work : {FALSE}]

FaultInit ==
    /\ config \in FaultConfigs
    /\ fault \in Faults \cup {NoFault}
    /\ Fresh
    /\ NoAnalyzer

FaultSpec == FaultInit /\ [][Next]_vars

\* The engine at the moment its first session, a work session of the
\* configured length, has completed and its timer thread has entered the
\* auto-start delay (line 284) with a short break to start; the calls and
\* the threads of the run are counted from here.
DeferredInit ==
    /\ config \in FaultConfigs
    /\ fault = NoFault
    /\ NoAnalyzer
    /\ session_type = WORK
    /\ session_duration = MinutesToSeconds(config.work_mins)
    /\ elapsed_seconds = session_duration
    /\ state = COMPLETED
    /\ now = 1
    /\ start_time = now
    /\ pause_time = NoTime
    /\ stop_event = FALSE
    /\ timer_thread = 1
    /\ completed_work_sessions = 1
    /\ session_count = 1
    /\ log = <<LogLine("Started", WORK, config.work_mins),
               LogLine("Completed", WORK, WholeMinutes(session_duration))>>
    /\ pc = [p \in Procs |-> IF p = Caller THEN "idle"
                            ELSE IF p = 1 THEN "delay"
                            ELSE "unborn"]
    /\ arg_type = [p \in Procs |-> IF p = 1 THEN SHORT_BREAK ELSE WORK]
    /\ duration_minutes =
           [p \in Procs |-> IF p = 1 THEN config.short_break_mins ELSE 0]
    /\ next_type = SHORT_BREAK
    /\ early_warning_sent = [w \in Workers |-> FALSE]
    /\ tick_args = <<session_duration, session_duration>>
    /\ complete_args = <<WORK, WholeMinutes(session_duration)>>
    /\ is_playing = FALSE
    /\ warning_requested = TRUE
    /\ ret = [op |-> "start", ok |-> TRUE]
    /\ calls = 0
    /\ completed_starts = {start_time}

DeferredSpec == DeferredInit /\ [][Next]_vars

\* ============================================================== analyzer
\* dashboard.py, SessionAnalyzer.  A Python number is held as its value in
\* tenths and whether it is an int; a line of the file is held as the parts
\* the pattern of line 65 looks at.

NoStamp == 0         \* the line has no "dddd-dd-dd dd:dd:dd" in it
BadStamp == -1       \* digits in that layout that are no date-time,
                     \* as in "2024-02-30 10:00:00"
Stamp == 1           \* strftime("%Y-%m-%d %H:%M:%S") of a datetime
NoFrac == -1         \* the number is written without a decimal point

IntMinutes(d) == [int |-> TRUE, tenths |-> 10 * d]
FloatMinutes(d, f) == [int |-> FALSE, tenths |-> 10 * d + f]

\* durations a session is started with: whole numbers of minutes, passed as
\* int (25) or as float (25.0)
Durations ==
    {IntMinutes(d) : d \in 1..MaxMinutes}
        \cup {FloatMinutes(d, 0) : d \in 1..MaxMinutes}

\* str() of a Python number, as the f-string of session_manager.py line 333
\* formats {duration}: "25" for an int, "25.0" or "0.5" for a float
Str(n) ==
    [whole |-> n.tenths \div 10,
     frac |-> IF n.int THEN NoFrac ELSE n.tenths % 10]

\* the number a duration text stands for, in tenths
Tenths(text) ==
    10 * text.whole + (IF text.frac = NoFrac THEN 0 ELSE text.frac)

\* session_manager.py lines 332-333: the line _log_session_event writes
LogEntry(event, type, duration) ==
    [stamp |-> Stamp, event |-> event, type |-> type,
     dur |-> Str(duration), tail |-> TRUE]

\* session_manager.py lines 103 and 244: session_duration // 60 for
\* session_duration = duration_minutes * 60; floor division keeps the type
CompletedMinutes(D) ==
    [int |-> D.int, tenths |-> 10 * (D.tenths \div 10)]

\* the Completed line of a session of type t started with duration D
CompletedEntry(t, D) == LogEntry("Completed", t, CompletedMinutes(D))

\* an empty line
Blank ==
    [stamp |-> NoStamp, event |-> "", type |-> "",
     dur |-> [whole |-> 0, frac |-> NoFrac], tail |-> FALSE]

\* a Started line cut off before " minutes)": the unfinished last line of a
\* file that is being appended to
Partial ==
    [stamp |-> Stamp, event |-> "Started", type |-> WORK,
     dur |-> [whole |-> 1, frac |-> NoFrac], tail |-> FALSE]

\* a Started line whose timestamp is no date-time
BadStampLine ==
    [stamp |-> BadStamp, event |-> "Started", type |-> WORK,
     dur |-> [whole |-> 1, frac |-> NoFrac], tail |-> TRUE]

\* the lines a file is made of: the lines the engine writes (Started with
\* the duration passed, Stopped with round(elapsed_seconds / 60, 1),
\* Completed), Paused and Resumed lines of the same shape, and the three
\* lines that are not of the shape
Lines ==
    {CompletedEntry(WORK, D) : D \in Durations}
        \cup {CompletedEntry(SHORT_BREAK, IntMinutes(1)),
              LogEntry("Started", WORK, IntMinutes(1)),
              LogEntry("Stopped", WORK, FloatMinutes(0, 5)),
              LogEntry("Paused", WORK, IntMinutes(1)),
              LogEntry("Resumed", WORK, IntMinutes(1)),
              Blank, Partial, BadStampLine}

Files == UNION {[1..n -> Lines] : n \in 0..MaxLines}

\* line 65: the events of the pattern's alternation
PatternEvents == {"Started", "Completed", "Paused", "Resumed"}

\* lines 65 and 70: re.search(pattern, line) finds a match
Match(line) ==
    /\ line.stamp # NoStamp
    /\ line.event \in PatternEvents
    /\ line.type \in SessionType
    /\ line.tail

\* line 65, ".*?(\d+) minutes": group 4 is the run of digits that ends at
\* " minutes", the digits after the decimal point when there is one;
\* line 77 takes int() of it
Group4(line) ==
    IF line.dur.frac = NoFrac THEN line.dur.whole ELSE line.dur.frac

\* lines 79-87: the SessionData built from a matching line
SessionData(line) ==
    [timestamp |-> line.stamp, action |-> line.event,
     session_type |-> line.type, duration |-> Group4(line)]

AnalyzerInit ==
    /\ config \in FaultConfigs
    /\ fault = NoFault
    /\ Fresh
    /\ file \in Files
    /\ line_no = 1
    /\ sessions = <<>>
    /\ stats = NoStats
    /\ NoResults
    /\ ana_pc = "reading"

engineState ==
    <<config, fault, sessVars, countVars, threadVars, is_playing, log, pc,
      localVars, obsVars, ret, now, calls, histVars>>

\* lines 67-89, load_session_data: one turn of the loop over the lines.  A
\* line the pattern does not match is passed over; strptime (lines 72-74)
\* raises on a timestamp that is no date-time, and the only handler is the
\* one around the whole loop (line 88), which ends the loading.
\* a load that opens the engine's log for writing
LoadLine_Truncating ==
    /\ ana_pc = "reading"
    /\ ana_pc' = "loaded"
    /\ log' = <<>>
    /\ UNCHANGED <<config, fault, sessVars, countVars, threadVars, is_playing,
                   pc, localVars, obsVars, ret, now, calls, histVars>>
    /\ UNCHANGED <<file, line_no, sessions, stats, resultVars>>

LoadLine ==
    /\ ana_pc = "reading"
    /\ IF line_no > Len(file)
       THEN /\ ana_pc' = "loaded"
            /\ UNCHANGED <<line_no, sessions>>
       ELSE LET line == file[line_no]
            IN  IF ~Match(line)
                THEN /\ line_no' = line_no + 1
                     /\ UNCHANGED <<sessions, ana_pc>>
                ELSE IF line.stamp = BadStamp
                THEN /\ ana_pc' = "loaded"
                     /\ UNCHANGED <<line_no, sessions>>
                ELSE /\ sessions' = Append(sessions, SessionData(line))
                     /\ line_no' = line_no + 1
                     /\ UNCHANGED ana_pc
    /\ UNCHANGED <<file, stats, resultVars, engineState>>

RECURSIVE Sum(_)
Sum(seq) == IF seq = <<>> THEN 0 ELSE Head(seq).duration + Sum(Tail(seq))

IsCompleted(s) == s.action = "Completed"
IsWork(s) == s.session_type = WORK

\* timestamps count half days; the analyzer's datetime.now() is the
\* afternoon of day Today
PerDay == 2
Today == 400
Clock == PerDay * Today + 1

\* lines 45 and 85: timestamp.date()
Date(t) == t \div PerDay

IsBreak(s) == s.session_type \in {SHORT_BREAK, LONG_BREAK}

\* the dates of a sequence of sessions
Dates(seq) == {Date(seq[i].timestamp) : i \in 1..Len(seq)}

\* round(a / b, 1), in tenths.  An exact tie (a / b ends in 25 or 75
\* hundredths, with b a power of two) goes to the even tenth.
Round1(a, b) ==
    LET q == (10 * a) \div b
        r == (10 * a) % b
    IN  IF 2 * r < b THEN q
        ELSE IF 2 * r > b THEN q + 1
        ELSE IF q % 2 = 0 THEN q ELSE q + 1

ZeroDivision == -1   \* the expression raises ZeroDivisionError

\* Average without the conditional expressions of lines 127-156
Average_Unguarded(total, n) ==
    IF n # 0 THEN Round1(total, n) ELSE ZeroDivision

\* lines 127-156: round(total / n, 1) if n else 0, in tenths
Average(total, n) ==
    IF n # 0 THEN Round1(total, n) ELSE 0

\* lines 157-160: max(..., default=0) and min(..., default=0)
Longest(seq) ==
    IF seq = <<>> THEN 0
    ELSE CHOOSE m \in {seq[i].duration : i \in 1..Len(seq)} :
            \A i \in 1..Len(seq) : seq[i].duration <= m
Shortest(seq) ==
    IF seq = <<>> THEN 0
    ELSE CHOOSE m \in {seq[i].duration : i \in 1..Len(seq)} :
            \A i \in 1..Len(seq) : seq[i].duration >= m

\* lines 208-218: the loop over dates[1:], the dates below last_date in
\* descending order
RECURSIVE Run(_, _)
Run(last_date, dates) ==
    LET earlier == {d \in dates : d < last_date}
        date == CHOOSE d \in earlier : \A e \in earlier : e <= d
    IN  IF earlier # {} /\ last_date - date = 1
        THEN 1 + Run(date, dates)
        ELSE 1

\* _calculate_streak without the test of lines 207-209
CalculateStreak_AnyRecency(seq) ==
    LET dates == Dates(SelectSeq(seq, IsCompleted))
        first == CHOOSE d \in dates : \A e \in dates : e <= d
    IN  IF seq = <<>> \/ dates = {} THEN 0
        ELSE Run(first, dates)

\* lines 192-220, _calculate_streak
CalculateStreak(seq) ==
    LET dates == Dates(SelectSeq(seq, IsCompleted))
        first == CHOOSE d \in dates : \A e \in dates : e <= d
    IN  IF seq = <<>> \/ dates = {} THEN 0
        ELSE IF first = Today \/ first = Today - 1
        THEN Run(first, dates)
        ELSE 0

\* lines 108-163, calculate_stats; the rounded values are in tenths
Stats(seq) ==
    LET completed_sessions == SelectSeq(seq, IsCompleted)
        work_sessions == SelectSeq(completed_sessions, IsWork)
        break_sessions == SelectSeq(completed_sessions, IsBreak)
        total_work_time == Sum(work_sessions)
        total_break_time == Sum(break_sessions)
        unique_dates == Dates(completed_sessions)
    IN  [total_sessions |-> Len(completed_sessions),
         work_sessions |-> Len(work_sessions),
         break_sessions |-> Len(break_sessions),
         total_work_time |-> total_work_time,
         total_break_time |-> total_break_time,
         productive_hours |-> RoundTenth(total_work_time) \div 6,
         days_active |-> Cardinality(unique_dates),
         avg_work_session |->
             Average(Sum(work_sessions), Len(work_sessions)),
         avg_break_session |->
             Average(Sum(break_sessions), Len(break_sessions)),
         work_ratio |->
             Average(100 * Len(work_sessions), Len(completed_sessions)),
         avg_sessions_per_day |->
             Average(Len(completed_sessions), Cardinality(unique_dates)),
         avg_work_per_day |->
             Average(total_work_time, Cardinality(unique_dates)),
         longest_work_session |-> Longest(work_sessions),
         shortest_work_session |-> Shortest(work_sessions),
         total_focus_days |-> Cardinality(unique_dates),
         streak_days |-> CalculateStreak(seq)]

\* lines 91-106 and 108-163: calculate_stats(filter_sessions("all"))
CalculateStats ==
    /\ ana_pc = "loaded"
    /\ stats' = Stats(sessions)
    /\ ana_pc' = "reported"
    /\ UNCHANGED <<file, line_no, sessions, resultVars, engineState>>

Periods == {"day", "week", "month", "year", "all"}

\* the cutoffs with the week counted from now
Cutoff_WeekFromNow(p) ==
    CASE p = "day" -> PerDay * Date(Clock)
      [] p = "week" -> Clock
      [] p = "month" -> Clock - 30 * PerDay
      [] p = "year" -> Clock - 365 * PerDay

\* lines 95-102: the cutoff of a period other than "all"
Cutoff(p) ==
    CASE p = "day" -> PerDay * Date(Clock)
      [] p = "week" -> Clock - 7 * PerDay
      [] p = "month" -> Clock - 30 * PerDay
      [] p = "year" -> Clock - 365 * PerDay

\* filter_sessions keeping only the sessions after the cutoff
Filter_AfterCutoff(seq, p) ==
    LET Recent(s) == s.timestamp > Cutoff(p)
    IN  IF p = "all" THEN seq ELSE SelectSeq(seq, Recent)

\* lines 91-106, filter_sessions applied to self.sessions = seq
Filter(seq, p) ==
    LET Recent(s) == s.timestamp >= Cutoff(p)
    IN  IF p = "all" THEN seq ELSE SelectSeq(seq, Recent)

\* a call of filter_sessions(p)
FilterSessions(p) ==
    /\ ana_pc = "reported"
    /\ period' = p
    /\ view' = Filter(sessions, p)
    /\ ana_pc' = "filtered"
    /\ UNCHANGED <<file, line_no, sessions, stats, daily, quick,
                   session_statistics, engineState>>

\* lines 244-248: the else branch of the test for a work session
IsOther(s) == s.session_type # WORK

\* the most recent of a set of dates
Latest(dates) == CHOOSE d \in dates : \A e \in dates : e <= d

\* lines 229-261: the row of a date
DailyRow(date, completed_sessions) ==
    LET OnDate(s) == Date(s.timestamp) = date
        of_date == SelectSeq(completed_sessions, OnDate)
        work_minutes == Sum(SelectSeq(of_date, IsWork))
    IN  [Date |-> date,
         Sessions |-> Len(of_date),
         WorkSessions |-> Len(SelectSeq(of_date, IsWork)),
         WorkMinutes |-> work_minutes,
         WorkHours |-> RoundTenth(work_minutes) \div 6,
         BreakMinutes |-> Sum(SelectSeq(of_date, IsOther))]

\* lines 227-262: the rows of the dates, sorted by Date descending
RECURSIVE Rows(_, _)
Rows(dates, completed_sessions) ==
    IF dates = {} THEN <<>>
    ELSE <<DailyRow(Latest(dates), completed_sessions)>>
            \o Rows(dates \ {Latest(dates)}, completed_sessions)

\* get_daily_breakdown with a row for each session, in the order of the
\* sessions
DailyBreakdown_RowPerSession(seq) ==
    LET completed_sessions == SelectSeq(seq, IsCompleted)
    IN  [i \in 1..Len(completed_sessions) |->
            DailyRow(Date(completed_sessions[i].timestamp),
                     completed_sessions)]

\* lines 222-264, get_daily_breakdown
DailyBreakdown(seq) ==
    LET completed_sessions == SelectSeq(seq, IsCompleted)
    IN  Rows(Dates(completed_sessions), completed_sessions)

\* a call of get_daily_breakdown on the filtered sessions (lines 584-586)
GetDailyBreakdown ==
    /\ ana_pc = "filtered"
    /\ daily' = DailyBreakdown(view)
    /\ ana_pc' = "broken_down"
    /\ UNCHANGED <<file, line_no, sessions, stats, view, period, quick,
                   session_statistics,
                   engineState>>

\* get_quick_stats taking the sessions of the month for those of the week
QuickStats_MonthForWeek(seq) ==
    LET total_stats == Stats(seq)
        today_stats == Stats(Filter(seq, "day"))
        week_stats == Stats(Filter(seq, "month"))
    IN  [today_sessions |-> today_stats.total_sessions,
         week_sessions |-> week_stats.total_sessions,
         total_sessions |-> total_stats.total_sessions,
         total_minutes |->
             total_stats.total_work_time + total_stats.total_break_time,
         streak |-> total_stats.streak_days]

\* lines 165-190, get_quick_stats with self.sessions = seq
QuickStats(seq) ==
    LET total_stats == Stats(seq)
        today_stats == Stats(Filter(seq, "day"))
        week_stats == Stats(Filter(seq, "week"))
    IN  [today_sessions |-> today_stats.total_sessions,
         week_sessions |-> week_stats.total_sessions,
         total_sessions |-> total_stats.total_sessions,
         total_minutes |->
             total_stats.total_work_time + total_stats.total_break_time,
         streak |-> total_stats.streak_days]

\* a call of get_quick_stats (main.py lines 247-248)
GetQuickStats ==
    /\ ana_pc = "broken_down"
    /\ quick' = QuickStats(sessions)
    /\ ana_pc' = "done"
    /\ UNCHANGED <<file, line_no, sessions, stats, view, period, daily,
                   session_statistics, engineState>>

AnalyzerNext == LoadLine \/ CalculateStats

AnalyzerSpec == AnalyzerInit /\ [][AnalyzerNext]_vars

\* ------------------------------------------- get_session_statistics
\* session_manager.py lines 400-476, the engine's own reader of its log.
\* It looks for words in the line where the analyzer matches a pattern.

\* line 422: "Completed" in line
HasCompleted(line) == line.event = "Completed"

\* line 426: "work session" in line
HasWorkSession(line) == line.event # "" /\ line.type = WORK

\* line 437: "break session" in line, which "short_break session" and
\* "long_break session" contain
HasBreakSession(line) ==
    line.event # "" /\ line.type \in {SHORT_BREAK, LONG_BREAK}

\* lines 429-435: float() of the text between "(" and " minutes)", in
\* tenths; nothing is added when the line has no "minutes)"
FloatDuration(line) == IF line.tail THEN Tenths(line.dur) ELSE 0

\* line 449: line.startswith(today)
StartsWithToday(line) ==
    line.stamp \notin {NoStamp, BadStamp} /\ Date(line.stamp) = Today

RECURSIVE SumDurations(_)
SumDurations(lines) ==
    IF lines = <<>> THEN 0
    ELSE FloatDuration(Head(lines)) + SumDurations(Tail(lines))

\* lines 464-472: total / count when there is a session, else the 0 the
\* dict starts with; the quotient is kept as its two terms
Quotient(total, count) ==
    IF count > 0 THEN [num |-> total, den |-> count] ELSE [num |-> 0, den |-> 1]

\* the dict get_session_statistics returns for a log file; times in tenths
\* of a minute
SessionStatistics(f) ==
    LET HasWork(l) == HasCompleted(l) /\ HasWorkSession(l)
        HasBreak(l) == HasCompleted(l) /\ ~HasWorkSession(l) /\ HasBreakSession(l)
        HasToday(l) == HasCompleted(l) /\ StartsWithToday(l)
        HasTodayWork(l) == HasToday(l) /\ HasWorkSession(l)
        work == SelectSeq(f, HasWork)
        break == SelectSeq(f, HasBreak)
    IN  [total_sessions |-> Len(SelectSeq(f, HasCompleted)),
         work_sessions |-> Len(work),
         break_sessions |-> Len(break),
         total_work_time |-> SumDurations(work),
         total_break_time |-> SumDurations(break),
         average_work_session |-> Quotient(SumDurations(work), Len(work)),
         average_break_session |-> Quotient(SumDurations(break), Len(break)),
         today_sessions |-> Len(SelectSeq(f, HasToday)),
         today_work_time |-> SumDurations(SelectSeq(f, HasTodayWork))]

\* a call of get_session_statistics on the file the analyzer has loaded
GetSessionStatistics ==
    /\ ana_pc = "reported"
    /\ session_statistics' = SessionStatistics(file)
    /\ ana_pc' = "compared"
    /\ UNCHANGED <<file, line_no, sessions, stats, view, period, daily, quick,
                   engineState>>

\* both readers over one file: the analyzer loads it and reports on all of
\* it, then the engine reads it
ReadersNext == AnalyzerNext \/ GetSessionStatistics

ReadersSpec == AnalyzerInit /\ [][ReadersNext]_vars

\* a line with its timestamp replaced
Dated(line, t) == [line EXCEPT !.stamp = t]

\* the timestamps of the lines of a dated file: now, this morning,
\* yesterday, two and three days ago, and the two sides of the cutoffs of a
\* week, a month and a year
Stamps ==
    {Clock, Clock - 1, Clock - PerDay, Clock - 2 * PerDay, Clock - 3 * PerDay,
     Clock - 7 * PerDay, Clock - 7 * PerDay - 1,
     Clock - 30 * PerDay, Clock - 30 * PerDay - 1,
     Clock - 365 * PerDay, Clock - 365 * PerDay - 1}

DatedLines ==
    {Dated(CompletedEntry(WORK, IntMinutes(MaxMinutes)), t) : t \in Stamps}
        \cup {Dated(CompletedEntry(SHORT_BREAK, IntMinutes(1)),
                    Clock - PerDay),
              Dated(CompletedEntry(CUSTOM, IntMinutes(1)), Clock),
              Dated(LogEntry("Started", WORK, IntMinutes(1)), Clock - PerDay)}

DatedFiles == UNION {[1..n -> DatedLines] : n \in 0..MaxLines}

StatsInit ==
    /\ config \in FaultConfigs
    /\ fault = NoFault
    /\ Fresh
    /\ file \in DatedFiles
    /\ line_no = 1
    /\ sessions = <<>>
    /\ stats = NoStats
    /\ NoResults
    /\ ana_pc = "reading"

\* a call of load_session_data on the analyzer the constructor has loaded:
\* the file is opened and read from its first line (lines 66-68), and
\* self.sessions is left as it is.  The sessions held after the load are at
\* most MaxLines + 1.
Reload ==
    /\ ana_pc = "done"
    /\ Len(sessions) + Len(file) <= MaxLines + 1
    /\ line_no' = 1
    /\ ana_pc' = "reading"
    /\ UNCHANGED <<file, sessions, stats, resultVars, engineState>>

StatsNext ==
    \/ LoadLine
    \/ Reload
    \/ CalculateStats
    \/ \E p \in Periods : FilterSessions(p)
    \/ GetDailyBreakdown
    \/ GetQuickStats

StatsSpec == StatsInit /\ [][StatsNext]_vars

\* the log file as an earlier run of the program left it
EarlierLog == <<Dated(CompletedEntry(WORK, IntMinutes(1)), Clock)>>

\* main.py lines 61-70 and 204-206: the launcher holds a SessionManager and
\* constructs a SessionAnalyzer beside it
ConcurrentInit ==
    /\ config \in FaultConfigs
    /\ fault = NoFault
    /\ Fresh
    /\ file = EarlierLog
    /\ line_no = 1
    /\ sessions = <<>>
    /\ stats = NoStats
    /\ NoResults
    /\ ana_pc = "reading"

\* the dashboard's sequence of calls (lines 584-586) for the period "week"
AnalyzerStep ==
    \/ LoadLine
    \/ CalculateStats
    \/ FilterSessions("week")
    \/ GetDailyBreakdown
    \/ GetQuickStats

\* sessions started, ticking, completing and chained by auto-start, with
\* the analyzer's calls in between
ConcurrentNext ==
    \/ \E a \in StartArgs : StartCall(a[1], a[2])
    \/ \E p \in Procs : StLog(p)
    \/ \E w \in Workers : WorkerStep(w)
    \/ AnalyzerStep

ConcurrentSpec == ConcurrentInit /\ [][ConcurrentNext]_vars

TypeOK ==
    /\ session_type \in SessionType
    /\ state \in SessionState
    /\ elapsed_seconds \in Nat
    /\ session_duration \in Nat

\* ================================================================ claims

\* process p takes a step from position l
Leaves(p, l) == pc[p] = l /\ pc'[p] # l

\* the step is a call made by the caller (every call is counted; the only
\* other calls are the timer threads' deferred start_session)
CallerCall ==
    /\ calls' # calls
    /\ \A w \in Workers : ~Leaves(w, "delay")

\* the caller's call of `op` takes its first step: it is refused, or accepted
\* and done at once (pause, resume), or accepted and under way (start, stop)
Issued(op) ==
    /\ CallerCall
    /\ \/ ret'.op = op
       \/ op = "start" /\ pc'[Caller] = "st_log"
       \/ op = "stop" /\ pc'[Caller] = "stop_join"

\* everything of the engine but the caller's return value
engineVars == <<sessVars, countVars, threadVars, log, pc, localVars, obsVars>>

Rejected(op) ==
    ret' = [op |-> op, ok |-> FALSE] /\ UNCHANGED engineVars

\* C1: in every reachable state 0 <= elapsed_seconds <= session_duration.
C1_ElapsedWithinDuration ==
    0 <= elapsed_seconds /\ elapsed_seconds <= session_duration

\* C2: from the moment a successful pause_session has returned until the
\* next resume_session, elapsed_seconds does not change.
PauseReturned == state = PAUSED /\ pc[Caller] = "idle"
C2_FrozenWhilePaused ==
    [][(PauseReturned /\ start_time' = start_time)
          => elapsed_seconds' = elapsed_seconds]_vars

\* C3: start_session called while the state is RUNNING returns False and
\* leaves the session fields, the counters, the timer thread and the log
\* as they were.
C3_StartWhileRunningRejected ==
    [][(Issued("start") /\ state = RUNNING) => Rejected("start")]_vars

\* a running session with time on its clock has just refused a start
C3_Witness ==
    /\ ret = [op |-> "start", ok |-> FALSE]
    /\ state = RUNNING
    /\ elapsed_seconds > 0
    /\ pc[Caller] = "idle"

\* C4: pause_session when the state is not RUNNING, resume_session when it
\* is not PAUSED and stop_session when it is neither RUNNING nor PAUSED
\* return False and change neither the session fields, the counters nor
\* the log.
C4_IllegalRequestsRejected ==
    [][/\ (Issued("pause") /\ state # RUNNING) => Rejected("pause")
       /\ (Issued("resume") /\ state # PAUSED) => Rejected("resume")
       /\ (Issued("stop") /\ state \notin {RUNNING, PAUSED})
            => Rejected("stop")]_vars

\* a stopped session has refused a pause; resume and stop are refused in the
\* same state by the same guards
C4_Witness ==
    /\ ret = [op |-> "pause", ok |-> FALSE]
    /\ state = STOPPED
    /\ Len(log) >= 2

\* the five transitions of the spec's table, as (from, to) pairs
LegalFive ==
    {<<READY, RUNNING>>, <<RUNNING, PAUSED>>, <<PAUSED, RUNNING>>,
     <<RUNNING, STOPPED>>, <<PAUSED, STOPPED>>, <<RUNNING, COMPLETED>>}

Admits(op, st) ==
    CASE op = "start" -> st # RUNNING
      [] op = "pause" -> st = RUNNING
      [] op = "resume" -> st = PAUSED
      [] op = "stop" -> st \in {RUNNING, PAUSED}

\* the step is one that sets the state to `st`
Sets(st) ==
    CASE st = RUNNING -> \/ Issued("start") \/ Issued("resume")
                         \/ \E w \in Workers : Leaves(w, "delay")
      [] st = PAUSED -> Issued("pause")
      [] st = STOPPED -> Leaves(Caller, "stop_join")
      [] st = COMPLETED -> \E w \in Workers : Leaves(w, "c_state")
      [] st = READY -> FALSE

LiveTimers == {w \in Workers : pc[w] \in {"loop", "tick"}}
C6_OneClockWorker == Cardinality(LiveTimers) <= 1

\* C7: a completion sets the state to COMPLETED, adds exactly 1 to
\* session_count, adds 1 to completed_work_sessions exactly for a work
\* session, and appends one Completed line with the session's type and its
\* planned whole minutes; no session is completed twice; and no caller
\* operation (stop, pause, resume) changes a counter.
C7_CompletionCountsOnce ==
    [][/\ \A w \in Workers :
            /\ Leaves(w, "c_state") => state' = COMPLETED
            /\ Leaves(w, "c_count") =>
                 /\ start_time \notin completed_starts
                 /\ session_count' = session_count + 1
                 /\ completed_work_sessions' = completed_work_sessions
                        + (IF session_type = WORK THEN 1 ELSE 0)
            /\ Leaves(w, "c_log") =>
                 /\ start_time \notin completed_starts
                 /\ log' = Append(log, LogLine("Completed", session_type,
                                               WholeMinutes(session_duration)))
       /\ (CallerCall \/ pc'[Caller] # pc[Caller]) => UNCHANGED countVars
      ]_vars

\* C8: a session that is started and never paused or stopped completes
\* after exactly session_duration increments of elapsed_seconds: when a
\* timer thread leaves its loop to complete the session, the clock stands
\* at the planned duration.
C8_CompletesAtDuration ==
    [][\A w \in Workers :
          (pc[w] = "loop" /\ pc'[w] = "c_state")
              => elapsed_seconds = session_duration]_vars

\* stop_session has returned True and the caller has made no call since
StopReturned == pc[Caller] = "idle" /\ ret = [op |-> "stop", ok |-> TRUE]

\* C9: a successful stop_session leaves the state STOPPED and appends one
\* Stopped line with the elapsed time; from its return on, as long as the
\* stopped session is not replaced by a start, elapsed_seconds does not
\* change and no tick callback fires.
C9_StoppedIsFrozen ==
    [][/\ Leaves(Caller, "stop_join") =>
            /\ state' = STOPPED
            /\ log' = Append(log, LogLine("Stopped", session_type,
                                          RoundTenth(elapsed_seconds)))
       /\ (StopReturned /\ start_time' = start_time) =>
            /\ elapsed_seconds' = elapsed_seconds
            /\ \A w \in Workers : ~Leaves(w, "tick")
      ]_vars

\* the candidate of the auto-chain policy after a session of type t, when
\* k work sessions have completed
Candidate(t, k) ==
    IF t # WORK THEN WORK
    ELSE IF k % config.long_break_interval = 0 THEN LONG_BREAK
    ELSE SHORT_BREAK

\* C10: the candidate computed after a completion is LONG_BREAK when the
\* session was a work session and completed_work_sessions, read after this
\* completion's increment, is a multiple of long_break_interval; SHORT_BREAK
\* after any other work session; WORK after a break.
C10_NextSessionCandidate ==
    [][\A w \in Workers :
          Leaves(w, "c_suggest") =>
              next_type' = Candidate(session_type, completed_work_sessions)
      ]_vars

\* the second work completion under long_break_interval 2 proposed the long
\* break
C10_Witness ==
    /\ config.long_break_interval = 2
    /\ completed_work_sessions = 2
    /\ next_type = LONG_BREAK
    /\ \E w \in Workers : pc[w] \in {"delay", "done"}

\* the flag that decides whether a session of type t is followed by an
\* automatic start
AutoFlag(t) ==
    IF t = WORK THEN config.auto_start_break ELSE config.auto_start_work

\* one more start_session can be made within the bounds of the model
Free == calls < MaxCalls /\ Unborn # {}

\* C11: after a work completion with auto_start_break on, the timer thread
\* goes on to call start_session for the candidate break, and a start made
\* from a state other than RUNNING sets the state to RUNNING, the type to the
\* candidate and elapsed_seconds to 0 and then appends one Started line;
\* with the flag off the thread ends without touching the session, and the
\* state leaves COMPLETED only by a caller's step or an enabled automatic
\* start.  The same holds after a break with auto_start_work and a work
\* session.  Under fair scheduling of the timer threads a completion whose
\* flag is on is followed by a running session, as long as the bounds of the
\* model leave room for one more start.
C11_AutoStart ==
    /\ [][/\ \A w \in Workers :
               /\ Leaves(w, "c_suggest") =>
                    IF AutoFlag(session_type)
                    THEN /\ pc'[w] = "delay"
                         /\ arg_type'[w] =
                              Candidate(session_type, completed_work_sessions)
                    ELSE /\ pc'[w] = "done"
                         /\ UNCHANGED <<sessVars, threadVars, log>>
               /\ (Leaves(w, "delay") /\ state # RUNNING) =>
                    /\ state' = RUNNING
                    /\ session_type' = arg_type[w]
                    /\ elapsed_seconds' = 0
                    /\ timer_thread' \in Unborn
                    /\ pc'[w] = "st_log"
               /\ Leaves(w, "st_log") =>
                    /\ Len(log') = Len(log) + 1
                    /\ log'[Len(log')].event = "Started"
                    /\ SubSeq(log', 1, Len(log)) = log
          /\ (state = COMPLETED /\ state' # COMPLETED) =>
               \/ CallerCall
               \/ pc'[Caller] # pc[Caller]
               \/ \E w \in Workers :
                     /\ Leaves(w, "delay")
                     /\ IF arg_type[w] = WORK THEN config.auto_start_work
                        ELSE config.auto_start_break
         ]_vars
    /\ (/\ \E w \in Workers : pc[w] = "c_count"
        /\ AutoFlag(session_type)
        /\ Free)
         ~> (state = RUNNING \/ ~Free)

\* a timer thread has started the short break after a work session by
\* itself and has written its Started line
C11_Witness ==
    /\ state = RUNNING
    /\ session_type = SHORT_BREAK
    /\ ret = [op |-> "start", ok |-> TRUE]
    /\ calls = 2
    /\ Len(log) = 3
    /\ log[3] = LogLine("Started", SHORT_BREAK, 1)
    /\ \E w \in Workers : pc[w] = "done"

\* the step is a tick at which timer thread w requests the early warning
Warns(w) ==
    /\ Leaves(w, "tick")
    /\ ~early_warning_sent[w]
    /\ early_warning_sent'[w]

\* C12: over the life of one session the early warning is requested exactly
\* once: a tick requests it exactly when the remaining time after the tick
\* is at or below notify_early_warning and still positive and no warning
\* has been requested for this session before.
C12_WarnedOncePerSession ==
    [][\A w \in Workers :
          Leaves(w, "tick") =>
              LET remaining_seconds == session_duration - elapsed_seconds'
              IN  Warns(w) <=> /\ remaining_seconds <= EarlyWarningTime
                               /\ remaining_seconds > 0
                               /\ ~warning_requested
      ]_vars

\* the step appends exactly one line, of event e, to the log
Appends(e) ==
    /\ Len(log') = Len(log) + 1
    /\ SubSeq(log', 1, Len(log)) = log
    /\ log'[Len(log')].event = e

\* the caller's call of `op` is accepted
Accepted(op) == Issued(op) /\ ~Rejected(op)

\* C13: one line is appended per lifecycle transition: one Started line by
\* each successful start, one Paused line by each successful pause, one
\* Resumed line by each successful resume, one Stopped line by each
\* successful stop, one Completed line by each completion, and no line
\* otherwise.
C13_OneRecordPerTransition ==
    [][/\ \A p \in Procs : Leaves(p, "st_log") => Appends("Started")
       /\ Accepted("pause") => Appends("Paused")
       /\ Accepted("resume") => Appends("Resumed")
       /\ Leaves(Caller, "stop_join") => Appends("Stopped")
       /\ \A w \in Workers : Leaves(w, "c_log") => Appends("Completed")
       /\ log' # log =>
            \/ \E p \in Procs : Leaves(p, "st_log")
            \/ Accepted("pause") \/ Accepted("resume")
            \/ Leaves(Caller, "stop_join")
            \/ \E w \in Workers : Leaves(w, "c_log")
      ]_vars

\* the events _log_session_event is called with (lines 126, 179, 250)
LoggedEvents == {"Started", "Stopped", "Completed"}

\* "<timestamp> - <Event> <sessionType> session (<durationMinutes> minutes)":
\* the fields the f-string of line 333 is filled with
WellShaped(line) ==
    /\ line.event \in LoggedEvents
    /\ line.type \in SessionType
    /\ line.mins \in Nat

Logs(line) == log' = IF fault = WriteFault THEN log ELSE Append(log, line)

\* the step is one of the three that call _log_session_event
LogStep ==
    \/ \E p \in Procs : Leaves(p, "st_log")
    \/ Leaves(Caller, "stop_join")
    \/ \E w \in Workers : Leaves(w, "c_log")

\* what a step is held to in the runs compared by C15
WriteStep ==
    fault \in {WriteFault, NoFault} =>
    /\ \A p \in Procs : Leaves(p, "st_log") =>
          /\ Logs(LogLine("Started", session_type, duration_minutes[p]))
          /\ pc'[p] = IF p = Caller THEN "idle" ELSE "done"
          /\ p = Caller => ret' = [op |-> "start", ok |-> TRUE]
          /\ UNCHANGED <<sessVars, countVars, threadVars>>
    /\ Leaves(Caller, "stop_join") =>
          /\ Logs(LogLine("Stopped", session_type,
                           RoundTenth(elapsed_seconds)))
          /\ state' = STOPPED
          /\ pc'[Caller] = "idle"
          /\ ret' = [op |-> "stop", ok |-> TRUE]
          /\ UNCHANGED <<session_type, session_duration,
                         elapsed_seconds, countVars, threadVars>>
    /\ \A w \in Workers : Leaves(w, "c_log") =>
          /\ Logs(LogLine("Completed", session_type,
                           WholeMinutes(session_duration)))
          /\ pc'[w] = "c_suggest"
          /\ UNCHANGED <<sessVars, countVars, threadVars>>
    /\ ~LogStep => log' = log
    /\ fault = WriteFault => Len(log') = 0

\* C15: a failed log write neither rolls back nor blocks the transition.
\* Whether or not the file can be written, the end of Start returns True
\* and leaves the session, the counters and the timer thread alone, Stop
\* reaches Stopped with elapsed_seconds kept and returns True, and the
\* completion goes on to its next step with the session and the counters
\* kept; the only difference is the line, which is missing when the write
\* fails, and no later step writes it.
C15_FailedWriteKeepsTransition == [][WriteStep]_vars

C15_Witness ==
    /\ fault = WriteFault
    /\ state = STOPPED
    /\ ret = [op |-> "stop", ok |-> TRUE]
    /\ completed_starts # {}
    /\ session_count > 0
    /\ log = <<>>

\* the faults of the two collaborators
CollaboratorFaults == {MusicFault, NotifyFault}

\* what a step is held to in the runs compared by C16
CollaboratorStep ==
    fault \in CollaboratorFaults =>
    /\ \A p \in Procs :
          (pc[p] # "st_log" /\ pc'[p] = "st_log") =>
            /\ state' = RUNNING
            /\ timer_thread' \in Unborn
            /\ pc'[timer_thread'] = "loop"
            /\ ~stop_event'
    /\ \A p \in Procs : Leaves(p, "st_log") => Appends("Started")
    /\ Accepted("pause") =>
          state' = PAUSED /\ ret' = [op |-> "pause", ok |-> TRUE]
    /\ Accepted("resume") =>
          state' = RUNNING /\ ret' = [op |-> "resume", ok |-> TRUE]
    /\ Leaves(Caller, "stop_join") =>
          /\ state' = STOPPED
          /\ Appends("Stopped")
          /\ ret' = [op |-> "stop", ok |-> TRUE]
    /\ \A w \in Workers : Leaves(w, "tick") =>
          /\ elapsed_seconds' = elapsed_seconds + 1
          /\ pc'[w] = "loop"
    /\ \A w \in Workers : Leaves(w, "c_count") =>
          /\ session_count' = session_count + 1
          /\ completed_work_sessions' =
                 completed_work_sessions
                   + (IF session_type = WORK THEN 1 ELSE 0)
          /\ pc'[w] = "c_log"
    /\ \A w \in Workers : Leaves(w, "c_log") => Appends("Completed")

CallbackStep ==
    fault \in {CallbackFault, NoFault} =>
    /\ \A w \in Workers : Leaves(w, "tick") =>
          /\ elapsed_seconds' = elapsed_seconds + 1
          /\ tick_args' = <<elapsed_seconds', session_duration>>
          /\ pc'[w] = "loop"
          /\ UNCHANGED <<state, countVars, log>>
    /\ \A w \in Workers : Leaves(w, "c_state") =>
          /\ state' = COMPLETED
          /\ pc'[w] = "c_count"
          /\ UNCHANGED <<countVars, log>>
    /\ \A w \in Workers : Leaves(w, "c_log") =>
          /\ Appends("Completed")
          /\ pc'[w] = "c_suggest"
    /\ \A w \in Workers : Leaves(w, "c_suggest") =>
          /\ complete_args' = <<session_type, duration_minutes[w]>>
          /\ pc'[w] \in {"delay", "done"}
          /\ UNCHANGED <<sessVars, countVars, log>>
    /\ Accepted("pause") =>
          state' = PAUSED /\ ret' = [op |-> "pause", ok |-> TRUE]
    /\ Accepted("resume") =>
          state' = RUNNING /\ ret' = [op |-> "resume", ok |-> TRUE]
    /\ \A p \in Procs :
          (pc[p] # "st_log" /\ pc'[p] = "st_log") =>
              state' = RUNNING /\ pc'[timer_thread'] = "loop"
    /\ Leaves(Caller, "stop_join") =>
          state' = STOPPED /\ ret' = [op |-> "stop", ok |-> TRUE]

\* C17: an exception raised by a callback is caught where the callback is
\* called.  With every callback raising, a tick still counts its second,
\* calls the tick callback and returns to the loop; the completion still
\* sets COMPLETED, updates the counters, writes its line, calls the
\* completion callback and goes on to the suggestion; and the caller's
\* operations still make their transitions and return True: the session,
\* the counters and the log change as in the run without the exceptions.
C17_CallbackExceptionCaught == [][CallbackStep]_vars

\* every callback raises: the session was ticked to its end all the same,
\* completed and counted, and both callbacks were called
C17_Witness ==
    /\ fault = CallbackFault
    /\ state = COMPLETED
    /\ tick_args = <<MaxDur, MaxDur>>
    /\ complete_args = <<WORK, 0>>
    /\ completed_work_sessions = 1
    /\ Len(log) = 2
    /\ log[2].event = "Completed"

\* C18: a file of N Completed lines of work sessions of D minutes each, as
\* the engine writes them, gives work_sessions = N and
\* total_work_time = N * D.
C18_RoundTrip ==
    \A D \in Durations :
        (/\ ana_pc = "reported"
         /\ file = [i \in 1..Len(file) |-> CompletedEntry(WORK, D)])
            => /\ stats.work_sessions = Len(file)
               /\ 10 * stats.total_work_time = Len(file) * D.tenths

\* the five events of the log
FiveEvents == {"Started", "Paused", "Resumed", "Stopped", "Completed"}

\* the line has the fixed shape
\* "<timestamp> - <Event> <sessionType> session (<durationMinutes> minutes)"
Shaped(line) ==
    /\ line.stamp = Stamp
    /\ line.event \in FiveEvents
    /\ line.type \in SessionType
    /\ line.tail

\* C19: from a file whose lines all have the fixed shape, the load yields
\* one record per line, in the order of the file, whichever of the five
\* events the line is of, with the line's timestamp, event, session type and
\* duration.
C19_OneRecordPerLine ==
    (/\ ana_pc # "reading"
     /\ \A i \in 1..Len(file) : Shaped(file[i]))
        => /\ Len(sessions) = Len(file)
           /\ \A i \in 1..Len(file) :
                /\ sessions[i].timestamp = file[i].stamp
                /\ sessions[i].action = file[i].event
                /\ sessions[i].session_type = file[i].type
                /\ 10 * sessions[i].duration = Tenths(file[i].dur)

\* a line of the fixed shape of a kind the load reads back unchanged
Readable(line) ==
    /\ Shaped(line)
    /\ line.event \in PatternEvents
    /\ line.dur.frac = NoFrac

\* the records of a sequence of lines
Records(seq) == [i \in 1..Len(seq) |-> SessionData(seq[i])]

\* C20: lines that are not of the shape are passed over one by one and
\* never end the loading: the records loaded are those of the lines of the
\* shape, wherever the other lines sit.  (Stated for files whose lines of
\* the shape are all of a kind the load reads back unchanged.)
C20_MalformedSkipped ==
    (/\ ana_pc # "reading"
     /\ \A i \in 1..Len(file) : Shaped(file[i]) => Readable(file[i]))
        => sessions = Records(SelectSeq(file, Shaped))

\* C28: COMPLETED is entered only from RUNNING and only with elapsed_seconds
\* equal to session_duration; while the state is PAUSED no step makes it
\* COMPLETED, changes a counter or appends a Completed line.
C28_CompletedOnlyFromRunning ==
    [][/\ (state # COMPLETED /\ state' = COMPLETED) =>
            /\ state = RUNNING
            /\ elapsed_seconds = session_duration
       /\ state = PAUSED =>
            /\ UNCHANGED countVars
            /\ log' # log => log'[Len(log')].event # "Completed"
      ]_vars

\* C29: pause_session and resume_session leave the timer thread alone (the
\* thread last started stays the same and no thread is created or ended),
\* and the tick callback is called once for each second of the session, in
\* order: every tick adds 1 to elapsed_seconds, passes the new value with
\* the planned total, and never goes past the total; elapsed_seconds changes
\* in no other way than by a tick or by the reset of a start; and the thread
\* that leaves the loop to complete the session has delivered the total.
C29_TicksOnceEach ==
    [][/\ (Issued("pause") \/ Issued("resume")) =>
            /\ timer_thread' = timer_thread
            /\ \A w \in Workers : pc'[w] = pc[w]
       /\ \A w \in Workers : Leaves(w, "tick") =>
            /\ elapsed_seconds' = elapsed_seconds + 1
            /\ elapsed_seconds' <= session_duration
            /\ tick_args' = <<elapsed_seconds', session_duration>>
       /\ elapsed_seconds' # elapsed_seconds =>
            \/ \E w \in Workers : Leaves(w, "tick")
            \/ elapsed_seconds' = 0 /\ start_time' # start_time
       /\ \A w \in Workers : (pc[w] = "loop" /\ pc'[w] = "c_state") =>
            tick_args = <<session_duration, session_duration>>
      ]_vars

\* C30: the steps of a completion come in one order: COMPLETED is set; then
\* the counters are incremented; then the Completed line is appended; then
\* the completion callback is called and the auto-start settings are
\* looked at; and the Started line of the session started automatically is
\* written last, by the same thread.  No step does the work of a later one.
C30_CompletionOrder ==
    [][\A w \in Workers :
         /\ (pc[w] = "loop" /\ pc'[w] # "loop") =>
               /\ pc'[w] \in {"tick", "c_state", "done"}
               /\ UNCHANGED <<state, countVars, log, complete_args>>
         /\ Leaves(w, "c_state") =>
               /\ state' = COMPLETED
               /\ pc'[w] = "c_count"
               /\ UNCHANGED <<countVars, log, complete_args, next_type>>
         /\ Leaves(w, "c_count") =>
               /\ session_count' = session_count + 1
               /\ pc'[w] = "c_log"
               /\ UNCHANGED <<state, log, complete_args, next_type>>
         /\ Leaves(w, "c_log") =>
               /\ Appends("Completed")
               /\ pc'[w] = "c_suggest"
               /\ UNCHANGED <<state, countVars, complete_args, next_type>>
         /\ Leaves(w, "c_suggest") =>
               /\ complete_args' = <<session_type, duration_minutes[w]>>
               /\ next_type' # None
               /\ pc'[w] \in {"delay", "done"}
               /\ UNCHANGED <<state, countVars, log>>
         /\ Leaves(w, "delay") =>
               /\ pc'[w] \in {"st_log", "done"}
               /\ UNCHANGED <<countVars, log, complete_args>>
         /\ Leaves(w, "st_log") =>
               /\ Appends("Started")
               /\ pc'[w] = "done"
      ]_vars

\* the break started automatically after a completed work session: its
\* Started line comes after the Completed line, and the callback was called
C30_Witness ==
    /\ \E w \in Workers : pc[w] = "done"
    /\ Len(log) = 3
    /\ log[2] = LogLine("Completed", WORK, 0)
    /\ log[3].event = "Started"
    /\ log[3].type \in {SHORT_BREAK, LONG_BREAK}
    /\ complete_args = <<WORK, 0>>
    /\ calls = 2

\* the durations of a sequence of sessions, summed
Minutes(seq) == Sum(seq)

\* C21: the statistics are over the Completed sessions only, which they
\* split in two: the work sessions, of type work, and the break sessions,
\* all the others; so the two counts add up to total_sessions and the two
\* times add up to the minutes of all Completed sessions, custom sessions
\* included.
C21_WorkAndBreakPartition ==
    ana_pc = "reported" =>
        LET completed == SelectSeq(sessions, IsCompleted)
        IN  /\ stats.total_sessions = Len(completed)
            /\ stats.work_sessions = Len(SelectSeq(completed, IsWork))
            /\ stats.break_sessions = Len(SelectSeq(completed, IsOther))
            /\ stats.work_sessions + stats.break_sessions
                  = stats.total_sessions
            /\ stats.total_work_time + stats.total_break_time
                  = Minutes(completed)

\* the dates with a Completed session
CompletedDates == Dates(SelectSeq(sessions, IsCompleted))

\* C22: the streak is 0 when no date has a Completed session or when the
\* most recent such date is neither today nor yesterday; otherwise it is
\* the length of the run of consecutive days that ends at the most recent
\* date: each of its days has a Completed session and the day before the run
\* has none.
C22_StreakDays ==
    ana_pc = "reported" =>
        LET n == stats.streak_days
        IN  IF CompletedDates = {}
            THEN n = 0
            ELSE IF Latest(CompletedDates) \notin {Today, Today - 1}
            THEN n = 0
            ELSE /\ n >= 1
                 /\ \A k \in 0..(n - 1) :
                        Latest(CompletedDates) - k \in CompletedDates
                 /\ Latest(CompletedDates) - n \notin CompletedDates

\* sessions today, yesterday and the day before give a streak of 3
C22_Witness ==
    /\ ana_pc = "reported"
    /\ CompletedDates = {Today, Today - 1, Today - 2}
    /\ stats.streak_days = 3

\* today and three days ago give a streak of 1
C22_WitnessGap ==
    /\ ana_pc = "reported"
    /\ CompletedDates = {Today, Today - 3}
    /\ stats.streak_days = 1

\* C24: the statistics of records with no Completed session, or with none
\* of a category, are computed and hold 0 where a division or an extreme of
\* nothing would be: no Completed work session gives 0 for avg_work_session,
\* longest_work_session and shortest_work_session, no Completed break gives
\* 0 for avg_break_session, and no Completed session gives 0 for work_ratio,
\* avg_sessions_per_day and avg_work_per_day.
C24_EmptyStatsAreZero ==
    ana_pc = "reported" =>
        /\ stats.work_sessions = 0 =>
              /\ stats.avg_work_session = 0
              /\ stats.longest_work_session = 0
              /\ stats.shortest_work_session = 0
        /\ stats.break_sessions = 0 => stats.avg_break_session = 0
        /\ stats.total_sessions = 0 =>
              /\ stats.work_ratio = 0
              /\ stats.avg_sessions_per_day = 0
              /\ stats.avg_work_per_day = 0
        /\ \A f \in DOMAIN stats : stats[f] # ZeroDivision

\* the statistics of no record at all
C24_Witness ==
    /\ ana_pc = "reported"
    /\ sessions = <<>>
    /\ stats.total_sessions = 0
    /\ stats.avg_work_session = 0
    /\ stats.work_ratio = 0

\* the positions of the loaded sessions at or after a time
Since(t) == {i \in 1..Len(sessions) : sessions[i].timestamp >= t}

\* the position in the loaded sessions of the j-th of a set of positions
Nth(kept, j) == CHOOSE i \in kept : Cardinality({k \in kept : k <= i}) = j

\* the sessions at a set of positions, in their order
Kept(kept) == [j \in 1..Cardinality(kept) |-> sessions[Nth(kept, j)]]

\* the time from which a period runs: midnight today for the day, 7, 30 and
\* 365 days before now for the week, the month and the year
From(p) ==
    CASE p = "day" -> PerDay * Today
      [] p = "week" -> Clock - 7 * PerDay
      [] p = "month" -> Clock - 30 * PerDay
      [] p = "year" -> Clock - 365 * PerDay

FilterStep ==
    (ana_pc = "reported" /\ ana_pc' = "filtered") =>
        /\ sessions' = sessions
        /\ file' = file
        /\ view' = IF period' = "all"
                   THEN sessions
                   ELSE Kept(Since(From(period')))

\* C23: filtering by a period gives, in their order, exactly the loaded
\* sessions at or after the period's cutoff, every session for the period
\* "all", and leaves the loaded sessions as they were.
C23_FilterByPeriod == [][FilterStep]_vars

\* of a session at the cutoff of the week and one just before it, the first
\* is kept
C23_Witness ==
    /\ ana_pc = "filtered"
    /\ period = "week"
    /\ Len(sessions) = 2
    /\ sessions[1].timestamp = Clock - 7 * PerDay - 1
    /\ sessions[2].timestamp = Clock - 7 * PerDay
    /\ view = <<sessions[2]>>

\* the positions of the Completed sessions of a date among the filtered
\* sessions
CompletedOn(date) ==
    {i \in 1..Len(view) :
        IsCompleted(view[i]) /\ Date(view[i].timestamp) = date}

\* the minutes of the filtered sessions at a set of positions
RECURSIVE MinutesAt(_)
MinutesAt(at) ==
    IF at = {} THEN 0
    ELSE LET i == CHOOSE k \in at : TRUE
         IN  view[i].duration + MinutesAt(at \ {i})

\* C25: the daily breakdown has one row for each date with a Completed
\* session and no other row; the row of a date holds the number of that
\* date's Completed sessions, the number of them that are work sessions,
\* the minutes of those and the minutes of the others; the rows are in
\* descending order of date.
C25_DailyBreakdown ==
    ana_pc = "broken_down" =>
        /\ \A i, j \in 1..Len(daily) : i < j => daily[i].Date > daily[j].Date
        /\ {daily[i].Date : i \in 1..Len(daily)}
              = {d \in Dates(view) : CompletedOn(d) # {}}
        /\ \A i \in 1..Len(daily) :
              LET all == CompletedOn(daily[i].Date)
                  work == {k \in all : view[k].session_type = WORK}
              IN  /\ daily[i].Sessions = Cardinality(all)
                  /\ daily[i].WorkSessions = Cardinality(work)
                  /\ daily[i].WorkMinutes = MinutesAt(work)
                  /\ daily[i].BreakMinutes = MinutesAt(all \ work)

\* two sessions today, one of them work, and a break yesterday: two rows,
\* today's first
C25_Witness ==
    /\ ana_pc = "broken_down"
    /\ Len(daily) = 2
    /\ daily[1].Date = Today
    /\ daily[1].Sessions = 2
    /\ daily[1].WorkSessions = 1
    /\ daily[1].WorkMinutes = MaxMinutes
    /\ daily[1].BreakMinutes = 1
    /\ daily[2].Date = Today - 1
    /\ daily[2].BreakMinutes = 1

\* the number of Completed sessions among the loaded ones at or after a
\* time
CompletedSince(t) ==
    Cardinality({i \in Since(t) : IsCompleted(sessions[i])})

\* the statistics of all the loaded sessions
OfAll == Stats(sessions)

\* C26: the quick statistics are those of three views of the loaded
\* sessions: today_sessions is the number of Completed sessions since
\* midnight, week_sessions the number in the last 7 days, total_sessions the
\* number of all of them, total_minutes the work minutes plus the break
\* minutes of all, and streak the streak of all.
C26_QuickStats ==
    ana_pc = "done" =>
        /\ quick.today_sessions = CompletedSince(PerDay * Today)
        /\ quick.week_sessions = CompletedSince(Clock - 7 * PerDay)
        /\ quick.total_sessions = Len(SelectSeq(sessions, IsCompleted))
        /\ quick.total_minutes
              = OfAll.total_work_time + OfAll.total_break_time
        /\ quick.streak = OfAll.streak_days

\* one session today, one more within the week and a third within the month
C26_Witness ==
    /\ ana_pc = "done"
    /\ quick.today_sessions = 1
    /\ quick.week_sessions = 2
    /\ quick.total_sessions = 3
    /\ quick.total_minutes = 3 * MaxMinutes
    /\ quick.streak = 1

ReadOnlyStep ==
    anaVars' # anaVars =>
        /\ file' = file
        /\ log' = log
        /\ UNCHANGED <<sessVars, countVars>>
        /\ UNCHANGED engineState

\* C27: no step of the analyzer (the load, a filter, the statistics with
\* the streak, the daily breakdown, the quick statistics) changes the file it
\* reads, the engine's log, the session state or the counters, or anything
\* else of the engine, whatever the engine is doing at the time.
C27_AnalyzerReadOnly == [][ReadOnlyStep]_vars

\* the analyzer between two of its calls while a session it did not see
\* start is running, has made a tick and written its Started line
C27_Witness ==
    /\ ana_pc = "reported"
    /\ state = RUNNING
    /\ elapsed_seconds = 1
    /\ \E w \in Workers : pc[w] = "tick"
    /\ Len(log) = 1
    /\ sessions # <<>>

\* a column of the daily breakdown, summed over its rows
RECURSIVE Total(_, _)
Total(rows, column) ==
    IF rows = <<>> THEN 0
    ELSE Head(rows)[column] + Total(Tail(rows), column)

\* C39: the daily breakdown and the statistics of the same sessions agree:
\* there are as many rows as active days, and over the rows the sessions add
\* up to total_sessions, the work sessions to work_sessions, the work minutes
\* to total_work_time and the break minutes to total_break_time, custom
\* sessions included.
C39_BreakdownAgreesWithStats ==
    ana_pc = "broken_down" =>
        /\ Len(daily) = Stats(view).days_active
        /\ Total(daily, "Sessions") = Stats(view).total_sessions
        /\ Total(daily, "WorkSessions") = Stats(view).work_sessions
        /\ Total(daily, "WorkMinutes") = Stats(view).total_work_time
        /\ Total(daily, "BreakMinutes") = Stats(view).total_break_time

\* a is b with some of its elements left out
IsSubsequence(a, b) ==
    \E f \in [1..Len(a) -> 1..Len(b)] :
        /\ \A i, j \in 1..Len(a) : i < j => f[i] < f[j]
        /\ \A i \in 1..Len(a) : a[i] = b[f[i]]

\* the periods that are wider than a period
Wider(p) ==
    CASE p = "day" -> {"week", "month", "year", "all"}
      [] p = "week" -> {"month", "year", "all"}
      [] p = "month" -> {"year", "all"}
      [] p = "year" -> {"all"}
      [] p = "all" -> {}

\* C38: the periods are nested: the sessions of a period are a subsequence
\* of the sessions of every wider period (day, week, month, year, all), and
\* the quick statistics have today_sessions <= week_sessions
\* <= total_sessions.
C38_PeriodsNested ==
    /\ ana_pc = "filtered" =>
          \A q \in Wider(period) : IsSubsequence(view, Filter(sessions, q))
    /\ ana_pc = "done" =>
          /\ quick.today_sessions <= quick.week_sessions
          /\ quick.week_sessions <= quick.total_sessions

\* the day holds one of three sessions, the week two and the month all three
C38_Witness ==
    /\ ana_pc = "filtered"
    /\ period = "day"
    /\ Len(view) = 1
    /\ Len(Filter(sessions, "week")) = 2
    /\ Len(Filter(sessions, "month")) = 3
    /\ Len(sessions) = 3

ReloadStep ==
    /\ (ana_pc = "reading" /\ ana_pc' = "loaded") =>
          sessions' = Records(file)
    /\ (ana_pc = "loaded" /\ ana_pc' = "reported" /\ stats # NoStats) =>
          stats' = stats
    /\ (ana_pc = "broken_down" /\ ana_pc' = "done" /\ quick # NoStats) =>
          quick' = quick

\* C32: a load ends with the records of the file's lines, the first load
\* and every later one of the same file alike, so the statistics and the
\* quick statistics computed after a reload are the ones computed before
\* it.
C32_ReloadSameRecords == [][ReloadStep]_vars

\* process p makes a successful start: it passes the test of line 86 and
\* goes on to write the Started line
Starts(p) == pc[p] # "st_log" /\ pc'[p] = "st_log"

DurationStep ==
    /\ \A p \in Procs : Starts(p) =>
          /\ session_duration' > 0
          /\ session_duration' = MinutesToSeconds(duration_minutes'[p])
          /\ duration_minutes'[p] # DefaultMinutes(session_type') =>
                \E a \in StartArgs : duration_minutes'[p] = a[2]
    /\ session_duration' # session_duration => \E p \in Procs : Starts(p)

\* C31: a successful start leaves a session_duration that is positive and
\* is 60 times the minutes of the session, the caller's if it gave any and
\* the configured default of the type otherwise; session_duration changes
\* in no other step.
C31_DurationFixedAtStart == [][DurationStep]_vars

\* the Stopped line of the session in progress has been written: stop_event
\* is set from the accepted stop to the next start, and the stop has left
\* its join
StopDone == stop_event /\ pc[Caller] # "stop_join"

TerminalStep ==
    /\ Leaves(Caller, "stop_join") => start_time \notin completed_starts
    /\ \A w \in Workers :
          /\ Leaves(w, "c_count") =>
                /\ start_time \notin completed_starts
                /\ ~StopDone
                /\ session_count' = session_count + 1
          /\ Leaves(w, "c_log") =>
                /\ start_time \notin completed_starts
                /\ ~StopDone
          /\ Leaves(w, "c_suggest") => ~StopDone

\* C33: a session ends in one way only: its Stopped line is not written
\* once its Completed line is, its Completed line is written once at most
\* and not once its Stopped line is, and it is counted and its completion
\* callback called only with that one Completed line.
C33_OneTerminalRecord == [][TerminalStep]_vars

\* a start has launched its timer thread and not yet written its Started
\* line
StartedPending == \E p \in Procs : pc[p] = "st_log"

StartedFirstStep ==
    /\ (Leaves(Caller, "stop_join") /\ log' # log) => ~StartedPending
    /\ \A w \in Workers :
          (Leaves(w, "c_log") /\ log' # log) => ~StartedPending

\* C34: when the Completed or the Stopped line of a session is written, the
\* Started line of its start has been written: no start is between the
\* launch of the timer thread and its write.
C34_StartedPrecedesTerminal == [][StartedFirstStep]_vars

\* a session begun since the last completion is running or paused
BegunSince ==
    /\ start_time # NoTime
    /\ start_time \notin completed_starts
    /\ state \in {RUNNING, PAUSED}

DeferredStartStep ==
    \A w \in Workers :
        (Leaves(w, "delay") /\ BegunSince) =>
            /\ UNCHANGED <<session_type, session_duration, elapsed_seconds,
                           state>>
            /\ timer_thread' = timer_thread
            /\ \A v \in Workers : pc[v] = "unborn" => pc'[v] = "unborn"

\* C35: when the start deferred by the auto-start delay is made while a
\* session begun during the delay is running or paused, it leaves that
\* session's type, duration, elapsed seconds and state as they are and
\* launches no timer thread.
C35_DeferredStartKeepsSession == [][DeferredStartStep]_vars

\* cleanup has returned and the caller has called nothing since
CleanedUp == ret.op = "cleanup" /\ pc[Caller] = "idle"

CleanupStep ==
    /\ (ret'.op = "cleanup" /\ ret.op # "cleanup") =>
          state' \notin {RUNNING, PAUSED}
    /\ (CleanedUp /\ ret' = ret /\ pc'[Caller] = "idle") =>
          /\ state' \notin {RUNNING, PAUSED}
          /\ elapsed_seconds' = elapsed_seconds
          /\ \A w \in Workers : pc'[w] # "tick"
          /\ log' # log => log'[Len(log')].event # "Started"

\* C36: when cleanup returns the state is neither RUNNING nor PAUSED, and
\* until the caller's next call it stays so, no timer thread ticks and no
\* Started line is written, whenever cleanup was called.
C36_CleanupEndsSessions == [][CleanupStep]_vars


\* ---------------------------------------------------------------- counters
IsCompletedLine(l) == l.event = "Completed"

\* the Completed records the engine has written
CompletedWrites == Len(SelectSeq(log, IsCompletedLine))

\* the timer threads that have counted their session and not yet written
\* its Completed record (lines 239-241 run before line 250)
Counted == {w \in Workers : pc[w] = "c_log"}

CountersStep ==
    /\ completed_work_sessions' >= completed_work_sessions
    /\ session_count' >= session_count
    /\ 0 <= completed_work_sessions'
    /\ completed_work_sessions' <= session_count'

CountEqualsWritesStep ==
    /\ CountersStep
    /\ session_count' = CompletedWrites'

CountMatchesWritesStep ==
    /\ CountersStep
    /\ session_count' = CompletedWrites' + Cardinality(Counted')

EngineWritten(line) ==
    /\ line.stamp = Stamp
    /\ line.event \in {"Started", "Completed", "Stopped"}
    /\ line.type \in SessionType
    /\ line.tail

\* C40: for any log written by the engine, get_session_statistics and
\* calculate_stats over all sessions report the same total, work and break
\* session counts and the same total work and break minutes
C40_ReadersAgree ==
    (/\ ana_pc = "compared"
     /\ \A i \in 1..Len(file) : EngineWritten(file[i])) =>
        /\ session_statistics.total_sessions = stats.total_sessions
        /\ session_statistics.work_sessions = stats.work_sessions
        /\ session_statistics.break_sessions = stats.break_sessions
        /\ session_statistics.total_work_time = 10 * stats.total_work_time
        /\ session_statistics.total_break_time = 10 * stats.total_break_time


====
